---- MODULE Spec2Model ----
(***************************************************************************)
(* github-mcp (src/src/index.ts): an MCP server whose CallTool handler      *)
(* dispatches load_config, get_config, get_init, get_pull and get_push.     *)
(*                                                                          *)
(* Strings are sequences of tokens (a token is a piece of text that the     *)
(* code never looks inside); template literals are concatenations.  Paths   *)
(* are sequences of segment names below the root.  The file system is the   *)
(* set of directories and the set of regular files.  A handler is an async  *)
(* function: it runs without interruption up to its next await, and the     *)
(* event loop may start or resume another handler while it is suspended.    *)
(***************************************************************************)
EXTENDS Integers, Sequences, FiniteSets, TLC

---------------------------------------------------------------------------
(* Bounds of the model *)

\* longest working_dir argument, in path segments
MaxSegs == 2
\* most handlers that are suspended at an await at the same time
MaxInflight == 1

VARIABLES
  WORKING_DIR,  \* let WORKING_DIR: the configured working directory
  LOG_FILE,     \* let LOG_FILE: the path log entries are appended to
  fs,           \* the file system: [dirs, files], sets of absolute paths
  inflight,     \* the handlers suspended at an await, by slot
  ev,           \* the result a handler has just returned or thrown, until the response is sent
  lastLoad      \* the last load_config request that passed validation

vars == <<WORKING_DIR, LOG_FILE, fs, inflight, ev, lastLoad>>

---------------------------------------------------------------------------
(* Strings *)

\* String.prototype.includes for a needle that is one token
Includes(s, tok) == \E i \in 1..Len(s) : s[i] = tok

\* s contains the token sequence sub as a contiguous run
IncludesStr(s, sub) ==
  \E i \in 0..(Len(s) - Len(sub)) : SubSeq(s, i + 1, i + Len(sub)) = sub

IsSpace(tok) == tok \in {" ", "\n"}

RECURSIVE TrimStart(_)
TrimStart(s) ==
  IF s # << >> /\ IsSpace(Head(s)) THEN TrimStart(Tail(s)) ELSE s

RECURSIVE TrimEnd(_)
TrimEnd(s) ==
  IF s # << >> /\ IsSpace(s[Len(s)]) THEN TrimEnd(SubSeq(s, 1, Len(s) - 1)) ELSE s

\* String.prototype.trim
Trim(s) == TrimEnd(TrimStart(s))

\* Array.prototype.join over strings
RECURSIVE JoinWith(_, _)
JoinWith(parts, sep) ==
  IF parts = << >> THEN << >>
  ELSE IF Len(parts) = 1 THEN parts[1]
  ELSE parts[1] \o sep \o JoinWith(Tail(parts), sep)

\* a JavaScript value used as a condition: undefined and "" are falsy
Truthy(v) == v.def /\ v.s # << >>

Undefined == [def |-> FALSE, s |-> << >>]
Defined(s) == [def |-> TRUE, s |-> s]

---------------------------------------------------------------------------
(* Paths (node:path, POSIX) *)

LOG_FILE_NAME == "github-mcp-server.log"

\* process.cwd(): the directory the server was started in; the code never
\* calls process.chdir
ProcessCwd == <<"srv">>

\* the segments of a working_dir argument: the parent directory, and the one
\* name the code itself gives to a file (a directory of that name makes the
\* append fail, a file of that name makes directory creation below it fail)
SegAlphabet == {"..", LOG_FILE_NAME}

RECURSIVE SegSeqs(_)
SegSeqs(n) ==
  IF n = 0 THEN {<< >>}
  ELSE LET shorter == SegSeqs(n - 1)
       IN  shorter \cup {Append(s, x) : s \in {t \in shorter : Len(t) = n - 1}, x \in SegAlphabet}

\* the working_dir strings a client sends: absolute or relative, with ".."
WorkingDirInputs == [abs : BOOLEAN, segs : SegSeqs(MaxSegs)]

\* normalisation: "." and empty segments vanish, ".." removes the segment
\* before it and is dropped at the root
RECURSIVE NormalizeFrom(_, _)
NormalizeFrom(done, rest) ==
  IF rest = << >> THEN done
  ELSE IF Head(rest) = ".."
       THEN NormalizeFrom(IF done = << >> THEN << >> ELSE SubSeq(done, 1, Len(done) - 1), Tail(rest))
  ELSE IF Head(rest) \in {".", ""}
       THEN NormalizeFrom(done, Tail(rest))
  ELSE NormalizeFrom(Append(done, Head(rest)), Tail(rest))

Normalize(segs) == NormalizeFrom(<< >>, segs)

\* path.resolve(working_dir) with the configured WORKING_DIR as the base
PathResolveFromWorkingDir(p) ==
  IF p.abs THEN Normalize(p.segs) ELSE Normalize(WORKING_DIR \o p.segs)

\* path.resolve(working_dir): a relative path is resolved against process.cwd()
PathResolve(p) ==
  IF p.abs THEN Normalize(p.segs) ELSE Normalize(ProcessCwd \o p.segs)

\* path.join(dir, name)
PathJoin(dir, name) == Normalize(Append(dir, name))

\* path.dirname of an absolute path
PathDirname(p) == IF p = << >> THEN << >> ELSE SubSeq(p, 1, Len(p) - 1)

\* an absolute path as it appears in a message
RECURSIVE PathStr(_)
PathStr(p) ==
  IF p = << >> THEN <<"/">>
  ELSE IF Len(p) = 1 THEN <<"/", p[1]>>
  ELSE <<"/", p[1]>> \o PathStr(Tail(p))

Prefixes(p) == {SubSeq(p, 1, k) : k \in 0..Len(p)}

---------------------------------------------------------------------------
(* File system (node:fs) *)

\* fs.existsSync
ExistsSync(f, p) == p \in f.dirs \/ p \in f.files

\* fs.mkdirSync(p, {recursive: true}): creates p and its missing parents;
\* throws when a component of p is a regular file
MkdirSync(f, p) ==
  IF \E q \in Prefixes(p) : q \in f.files
  THEN [ok |-> FALSE, fs |-> f,
        message |-> <<"ENOTDIR: not a directory, mkdir '">> \o PathStr(p) \o <<"'">>]
  ELSE [ok |-> TRUE, fs |-> [f EXCEPT !.dirs = @ \cup Prefixes(p)], message |-> << >>]

\* fs.appendFileSync(file, entry): creates the file when it is absent; throws
\* when file is a directory or its parent is not a directory
AppendFileSync(f, file) ==
  IF file \in f.dirs \/ PathDirname(file) \notin f.dirs \/ file = << >>
  THEN [ok |-> FALSE, fs |-> f]
  ELSE [ok |-> TRUE, fs |-> [f EXCEPT !.files = @ \cup {file}]]

\* logToFile(message, level): the file system after the call; an exception of
\* mkdirSync or appendFileSync is caught and only reported on stderr
LogToFile(f, logFile) ==
  LET logDir == PathDirname(logFile)
      made   == IF ExistsSync(f, logDir) THEN [ok |-> TRUE, fs |-> f]
                ELSE MkdirSync(f, logDir)
  IN  IF made.ok THEN AppendFileSync(made.fs, logFile).fs ELSE f

\* whether logToFile's entry reached the file: "written", or "failed" when
\* mkdirSync or appendFileSync threw
LogWrite(f, logFile) ==
  LET logDir == PathDirname(logFile)
      made   == IF ExistsSync(f, logDir) THEN [ok |-> TRUE, fs |-> f]
                ELSE MkdirSync(f, logDir)
  IN  IF made.ok /\ AppendFileSync(made.fs, logFile).ok THEN "written" ELSE "failed"

\* the error mkdirSync or appendFileSync throws inside logToFile
LogError(logFile) == <<"ENOTDIR: not a directory, open '">> \o PathStr(logFile) \o <<"'">>

\* logToFile without its try and catch: a failed write throws to the caller
LogToFileUncaught(f, logFile) == LogWrite(f, logFile) = "failed"

\* whether an exception leaves logToFile: its catch reports the error on
\* stderr and returns
LogToFileThrows(f, logFile) == FALSE

---------------------------------------------------------------------------
(* Requests and their validation (zod) *)

\* a JSON value of a request's arguments: absent, a string, or a number
NoValue == [type |-> "undefined", val |-> << >>]
StrValue(s) == [type |-> "string", val |-> s]
NumValue == [type |-> "number", val |-> << >>]

FieldNames == {"working_dir", "remoteUrl", "defaultBranch", "branch", "remote", "commitMessage"}

\* request.params.arguments: undefined, or a mapping from field names to values
NoFields == [n \in FieldNames |-> NoValue]
AbsentArgs == [present |-> FALSE, f |-> NoFields]
ArgsWith(f) == [present |-> TRUE, f |-> f]

\* request.params.arguments || {}
OrEmpty(args) == IF args.present THEN args ELSE ArgsWith(NoFields)

Field(name, kind, dflt) == [name |-> name, kind |-> kind, dflt |-> dflt]

LoadConfigInputSchema == << Field("working_dir", "string", << >>) >>
GetConfigInputSchema == << >>
GetInitInputSchema ==
  << Field("remoteUrl", "string", << >>), Field("defaultBranch", "optional", << >>) >>
GetPullInputSchema ==
  << Field("branch", "optional", << >>), Field("remote", "default", <<"origin">>) >>
GetPushInputSchema ==
  << Field("commitMessage", "string", << >>), Field("branch", "optional", << >>),
     Field("remote", "default", <<"origin">>) >>

\* the issues zod raises for one field of an object schema
FieldIssues(spec, v) ==
  IF v.type = "undefined"
  THEN IF spec.kind = "string"
       THEN << [path |-> <<spec.name>>, message |-> <<"Required">>] >>
       ELSE << >>
  ELSE IF v.type # "string"
       THEN << [path |-> <<spec.name>>, message |-> <<"Expected string, received ", v.type>>] >>
  ELSE << >>

\* the parsed value of one field: .optional() keeps undefined, .default(d) gives d
FieldData(spec, v) ==
  IF v.type = "string" THEN Defined(v.val)
  ELSE IF spec.kind = "default" THEN Defined(spec.dflt)
  ELSE Undefined

RECURSIVE ObjectIssues(_, _)
ObjectIssues(schema, f) ==
  IF schema = << >> THEN << >>
  ELSE FieldIssues(Head(schema), f[Head(schema).name]) \o ObjectIssues(Tail(schema), f)

\* Schema.parse(args): every issue of the input, in the order of the schema's
\* fields; an input that is not an object is one issue with an empty path
ZodParse(schema, args) ==
  LET issues == IF ~args.present
                THEN << [path |-> << >>, message |-> <<"Required">>] >>
                ELSE ObjectIssues(schema, args.f)
  IN  [ok |-> issues = << >>,
       issues |-> issues,
       data |-> [n \in {schema[i].name : i \in 1..Len(schema)} |->
                   LET spec == CHOOSE x \in {schema[i] : i \in 1..Len(schema)} : x.name = n
                   IN  FieldData(spec, args.f[n])]]

\* only the first issue is formatted
FirstErrorOnly(issues) ==
  JoinWith([k \in 1..Len(issues[1].path) |-> <<issues[1].path[k]>>], <<".">>)
    \o <<": ">> \o issues[1].message

\* error.errors.map(err => `${err.path.join('.')}: ${err.message}`).join('\n')
FormattedErrors(issues) ==
  JoinWith([i \in 1..Len(issues) |->
              JoinWith([k \in 1..Len(issues[i].path) |-> <<issues[i].path[k]>>], <<".">>)
                \o <<": ">> \o issues[i].message],
           <<"\n">>)

\* the Error the handler's catch throws for a ZodError
ValidationMessage(name, issues) ==
  <<"Input validation failed for tool '", name, "':\n">> \o FormattedErrors(issues)

---------------------------------------------------------------------------
(* Results and the record of a handler step *)

Success(text) == [kind |-> "Success", text |-> text]

\* an error answered as ordinary content
FailureAsContent(message) == [kind |-> "Success", text |-> message]

Failure(message) == [kind |-> "Failure", text |-> message]

NoExit == [ok |-> TRUE, stdout |-> << >>, stderr |-> << >>]

\* the handler of the request (name, args) settled with result, having started
\* the subprocess steps in steps, the last of which ended as exit says; log
\* tells whether the log entries of its last run reached the log file ("none":
\* it logs nothing), again whether it repeats the load_config before it; the
\* response is not yet sent
Returned(name, args, result, steps, exit, log) ==
  [name |-> name, args |-> args, kind |-> result.kind, text |-> result.text,
   steps |-> steps, exit |-> exit, log |-> log, again |-> FALSE]

NoEvent ==
  [name |-> "", args |-> AbsentArgs, kind |-> "None", text |-> << >>,
   steps |-> << >>, exit |-> NoExit, log |-> "none", again |-> FALSE]

\* what a handler whose statements call logToFile settles with: an exception
\* leaving logToFile would pass every catch on its way (each logs before it
\* throws) and reject the request
AfterLogging(f, logFile, result) ==
  IF LogToFileThrows(f, logFile) THEN Failure(LogError(logFile)) ELSE result

NoLoad == [valid |-> FALSE, ok |-> FALSE, working_dir |-> [abs |-> FALSE, segs |-> << >>]]

\* a catch that appends the error to a file named after the tool
ValidationFailurePerTool(name, args, issues) ==
  /\ fs' = AppendFileSync(fs, PathJoin(WORKING_DIR, name)).fs
  /\ ev' = Returned(name, args, Failure(ValidationMessage(name, issues)), << >>, NoExit,
                    LogWrite(fs, LOG_FILE))
  /\ UNCHANGED <<WORKING_DIR, LOG_FILE, inflight, lastLoad>>

\* the handler's catch for a ZodError: log the error, throw the formatted message
ValidationFailure(name, args, issues) ==
  /\ fs' = LogToFile(fs, LOG_FILE)
  /\ ev' = Returned(name, args,
                    AfterLogging(fs, LOG_FILE, Failure(ValidationMessage(name, issues))),
                    << >>, NoExit, LogWrite(fs, LOG_FILE))
  /\ UNCHANGED <<WORKING_DIR, LOG_FILE, inflight, lastLoad>>

---------------------------------------------------------------------------
(* load_config and get_config *)

LoadConfigRequests ==
  {AbsentArgs, ArgsWith([NoFields EXCEPT !.working_dir = NumValue])}
  \cup {ArgsWith([NoFields EXCEPT !.working_dir = StrValue(p)]) : p \in WorkingDirInputs}

\* LOG_FILE left as it was when WORKING_DIR changes
StaleLogFile(wd) == LOG_FILE

\* LOG_FILE = path.join(WORKING_DIR, `github-mcp-server.log`)
LogFileFor(wd) == PathJoin(wd, LOG_FILE_NAME)

LoadConfigText(wd, lf) ==
  <<"Configuration updated: Working Directory set to '">> \o PathStr(wd)
    \o <<"'. Log file is now at '">> \o PathStr(lf) \o <<"'.">>

MkdirFailedMessage(wd, osMessage) ==
  <<"Failed to create working directory ">> \o PathStr(wd) \o <<": ">> \o osMessage

\* a creation that is not guarded by existsSync and not recursive: it throws
\* when the path exists
EnsureDirUnguarded(f, p) ==
  IF ExistsSync(f, p)
  THEN [ok |-> FALSE, fs |-> f,
        message |-> <<"EEXIST: file already exists, mkdir '">> \o PathStr(p) \o <<"'">>]
  ELSE MkdirSync(f, p)

\* if (!fs.existsSync(WORKING_DIR)) fs.mkdirSync(WORKING_DIR, {recursive: true})
EnsureDir(f, p) ==
  IF ExistsSync(f, p) THEN [ok |-> TRUE, fs |-> f, message |-> << >>] ELSE MkdirSync(f, p)

\* case "load_config": WORKING_DIR and LOG_FILE are assigned before the
\* directory is looked for and created
LoadConfig(args) ==
  LET parsed == ZodParse(LoadConfigInputSchema, args)
  IN  IF ~parsed.ok
      THEN ValidationFailure("load_config", args, parsed.issues)
      ELSE
        LET working_dir == parsed.data.working_dir.s
            wd == PathResolve(working_dir)
            lf == LogFileFor(wd)
            made == EnsureDir(fs, wd)
        IN  /\ WORKING_DIR' = wd
            /\ LOG_FILE' = lf
            /\ lastLoad' = [valid |-> TRUE, ok |-> made.ok, working_dir |-> working_dir]
            /\ UNCHANGED inflight
            /\ fs' = IF made.ok THEN LogToFile(made.fs, lf)
                     ELSE LogToFile(LogToFile(made.fs, lf), lf)
            /\ LET result ==
                     IF made.ok
                     THEN \* "Created working directory" (when created) and "Configuration loaded"
                          Success(LoadConfigText(wd, lf))
                     ELSE \* "Error creating working directory", then the handler's catch logs again
                          Failure(MkdirFailedMessage(wd, made.message))
                   again == lastLoad.valid /\ lastLoad.ok /\ lastLoad.working_dir = working_dir
               IN  ev' = [Returned("load_config", args, AfterLogging(made.fs, lf, result),
                                   << >>, NoExit, LogWrite(made.fs, lf))
                            EXCEPT !.again = again]

GetConfigRequests == {AbsentArgs, ArgsWith(NoFields)}

GetConfigText(wd, lf) ==
  <<"Current Configuration:\n- Working Directory: ">> \o PathStr(wd)
    \o <<"\n- Log File: ">> \o PathStr(lf)

\* case "get_config"
GetConfig(args) ==
  LET parsed == ZodParse(GetConfigInputSchema, OrEmpty(args))
  IN  IF ~parsed.ok
      THEN ValidationFailure("get_config", args, parsed.issues)
      ELSE /\ ev' = Returned("get_config", args, Success(GetConfigText(WORKING_DIR, LOG_FILE)),
                             << >>, NoExit, "none")
           /\ UNCHANGED <<WORKING_DIR, LOG_FILE, fs, inflight, lastLoad>>

\* names the switch has no case for: another tool, and a known tool's name in
\* another spelling
UnknownNames == {"get_status", "Get_Config"}

\* a switch whose default answers like get_config
UnknownToolAnswered(name) ==
  /\ ev' = Returned(name, AbsentArgs, Success(GetConfigText(WORKING_DIR, LOG_FILE)),
                    << >>, NoExit, "none")
  /\ UNCHANGED <<WORKING_DIR, LOG_FILE, fs, inflight, lastLoad>>

\* default: log the attempt, throw; the handler's catch logs again and rethrows
UnknownTool(name) ==
  /\ fs' = LogToFile(LogToFile(fs, LOG_FILE), LOG_FILE)
  /\ ev' = Returned(name, AbsentArgs,
                    AfterLogging(fs, LOG_FILE, Failure(<<"Unknown tool: ", name>>)),
                    << >>, NoExit, LogWrite(fs, LOG_FILE))
  /\ UNCHANGED <<WORKING_DIR, LOG_FILE, inflight, lastLoad>>

---------------------------------------------------------------------------
(* Subprocesses (child_process.exec, promisified) *)

NothingToCommit == "nothing to commit"

Outcome(ok, stdout, stderr) == [ok |-> ok, stdout |-> stdout, stderr |-> stderr]

Fatal == Outcome(FALSE, << >>, <<"fatal: ", "error", "\n">>)

\* what git can answer to each step: exit status, stdout, stderr.  A commit
\* in a clean tree exits 1 with the status on stdout and nothing on stderr; a
\* hook may also print to stderr.  rev-parse --abbrev-ref HEAD prints the
\* branch, or HEAD when HEAD is detached; a wrapper may print an empty line.
Outcomes(step) ==
  CASE step = "commit" ->
         { Outcome(TRUE, <<"1 file changed", "\n">>, << >>),
           Outcome(FALSE, <<"On branch main", "\n", NothingToCommit, ", working tree clean", "\n">>, << >>),
           Outcome(FALSE, << >>, <<"hook: ", NothingToCommit, "\n">>),
           Fatal }
    [] step = "rev-parse" ->
         { Outcome(TRUE, <<"main", "\n">>, << >>),
           Outcome(TRUE, <<"HEAD", "\n">>, << >>),
           Outcome(TRUE, <<"\n">>, << >>),
           Fatal }
    [] step = "pull" ->
         { Outcome(TRUE, <<"Already up to date.", "\n">>, << >>),
           Outcome(TRUE, << >>, <<"From origin", "\n">>),
           Outcome(TRUE, <<"Fast-forward", "\n">>, <<"Updating", " 1a..2b", "\n">>),
           Fatal }
    [] step = "push" ->
         { Outcome(TRUE, << >>, << >>),
           Outcome(TRUE, << >>, <<"To github.com", ":u/r.git", "\n">>),
           Outcome(TRUE, <<"ok", "\n">>, <<"remote: ", "hint", "\n">>),
           Fatal }
    [] OTHER ->
         { Outcome(TRUE, << >>, << >>), Fatal }

\* the Error exec rejects with when the command exits non-zero
ExecError(cmd, o) ==
  [message |-> <<"Command failed: ">> \o cmd \o <<"\n">> \o o.stderr,
   stdout |-> o.stdout, stderr |-> o.stderr]

\* `${error.message}${error.stderr ? '\nstderr: ' + error.stderr : ''}`
ErrorDetail(error) ==
  error.message \o (IF error.stderr # << >> THEN <<"\nstderr: ">> \o error.stderr ELSE << >>)

\* stdout || 'No output'
OrNoOutput(stdout) == IF stdout # << >> THEN stdout ELSE <<"No output">>

---------------------------------------------------------------------------
(* Suspended handlers *)

Slots == 1..MaxInflight
Idle == [tool |-> "idle"]

\* one subprocess step: pc names the step, cmd is its command line, exit is
\* "running" until the subprocess exits, then "ok" or "failed"
Step(pc, cmd) == [pc |-> pc, cmd |-> cmd, exit |-> "running"]

\* a handler suspended at `await execAsync(cmd, { cwd: WORKING_DIR })`: steps
\* are the subprocesses it has started, the last one still running in cwd
Awaiting(tool, args, steps, currentBranch, detected) ==
  [tool |-> tool, args |-> args, steps |-> steps, cwd |-> WORKING_DIR,
   currentBranch |-> currentBranch, detected |-> detected]

\* how the branch-detection query of a get_push ended, when it ran
NotDetected == [ran |-> FALSE, exit |-> NoExit]
Detected(o) == [ran |-> TRUE, exit |-> o]

\* the step a suspended handler waits for
Running(h) == h.steps[Len(h.steps)]

\* the steps of a handler whose running subprocess has exited as o says
Exited(steps, o) ==
  [steps EXCEPT ![Len(steps)].exit = IF o.ok THEN "ok" ELSE "failed"]

\* the handler in slot i suspends on the next subprocess
Suspend(i, next) ==
  IF LogToFileThrows(fs, LOG_FILE)
  THEN \* the subprocess is not started: the exception rejects the request
       /\ inflight' = [inflight EXCEPT ![i] = Idle]
       /\ ev' = Returned(next.tool, next.args, Failure(LogError(LOG_FILE)),
                         SubSeq(next.steps, 1, Len(next.steps) - 1), NoExit, "failed")
       /\ UNCHANGED <<WORKING_DIR, LOG_FILE, fs, lastLoad>>
  ELSE /\ inflight' = [inflight EXCEPT ![i] = [next EXCEPT !.cwd = WORKING_DIR]]
       /\ fs' = LogToFile(fs, LOG_FILE)
       /\ UNCHANGED <<WORKING_DIR, LOG_FILE, ev, lastLoad>>

\* a handler that logs its result and then awaits a promise nothing resolves
FinishNeverSettles(i, o, result) ==
  /\ inflight' = [inflight EXCEPT ![i].steps = Exited(@, o)]
  /\ fs' = LogToFile(fs, LOG_FILE)
  /\ UNCHANGED <<WORKING_DIR, LOG_FILE, ev, lastLoad>>

\* a handler that, when it settles, sets the configuration back to the
\* directory its running step was started in
FinishRestoringDir(i, o, result) ==
  /\ inflight' = [inflight EXCEPT ![i] = Idle]
  /\ fs' = LogToFile(fs, LOG_FILE)
  /\ ev' = Returned(inflight[i].tool, inflight[i].args, result,
                    Exited(inflight[i].steps, o), o, LogWrite(fs, LOG_FILE))
  /\ WORKING_DIR' = inflight[i].cwd
  /\ LOG_FILE' = PathJoin(inflight[i].cwd, LOG_FILE_NAME)
  /\ UNCHANGED lastLoad

\* the handler in slot i returns or throws: the request's result
Finish(i, o, result) ==
  /\ inflight' = [inflight EXCEPT ![i] = Idle]
  /\ fs' = LogToFile(fs, LOG_FILE)
  /\ ev' = Returned(inflight[i].tool, inflight[i].args, AfterLogging(fs, LOG_FILE, result),
                    Exited(inflight[i].steps, o), o, LogWrite(fs, LOG_FILE))
  /\ UNCHANGED <<WORKING_DIR, LOG_FILE, lastLoad>>

---------------------------------------------------------------------------
(* get_init *)

InitArgs(u, b) == ArgsWith([NoFields EXCEPT !.remoteUrl = u, !.defaultBranch = b])

GetInitRequests ==
  {AbsentArgs, InitArgs(NoValue, NumValue)}
  \cup {InitArgs(u, b) : u \in {NoValue, StrValue(<<"git@host:u/r.git">>), NumValue},
                         b \in {NoValue, StrValue(<<"main">>), StrValue(<< >>)}}

InitCommand == <<"git init">>
RemoteAddCommand(remoteUrl) == <<"git remote add origin \"">> \o remoteUrl \o <<"\"">>
BranchCommand(defaultBranch) == <<"git branch -M \"">> \o defaultBranch \o <<"\"">>

InitText(defaultBranch) ==
  <<"Git repository initialized in ">> \o PathStr(WORKING_DIR) \o <<", remote 'origin' added.">>
    \o (IF Truthy(defaultBranch)
        THEN <<" Default branch set to '">> \o defaultBranch.s \o <<"'.">>
        ELSE << >>)

\* a message that drops what the subprocess reported
InitFailedBare(error) == <<"Failed to initialize Git repository">>

InitFailed(error) == <<"Failed to initialize Git repository: ">> \o ErrorDetail(error)

\* GetInitInputSchema.parse(request.params.arguments)
GetInitParse(args) == ZodParse(GetInitInputSchema, args)

\* case "get_init" up to the first await of gitInit
GetInit(i, args) ==
  LET parsed == GetInitParse(args)
  IN  IF ~parsed.ok
      THEN ValidationFailure("get_init", args, parsed.issues)
      ELSE Suspend(i, Awaiting("get_init", args, <<Step("init", InitCommand)>>, Undefined, NotDetected))

\* gitInit resumed by the exit of its subprocess
GetInitExit(i, o) ==
  LET h == inflight[i]
      pc == Running(h).pc
      data == GetInitParse(h.args).data
      then(step, cmd) == Suspend(i, [h EXCEPT !.steps = Append(Exited(@, o), Step(step, cmd))])
  IN  IF ~o.ok
      THEN Finish(i, o, Failure(InitFailed(ExecError(Running(h).cmd, o))))
      ELSE IF pc = "init"
      THEN then("remote", RemoteAddCommand(data.remoteUrl.s))
      ELSE IF pc = "remote" /\ Truthy(data.defaultBranch)
      THEN then("branch", BranchCommand(data.defaultBranch.s))
      ELSE Finish(i, o, Success(InitText(data.defaultBranch)))

---------------------------------------------------------------------------
(* get_pull *)

PullArgs(b, r) == ArgsWith([NoFields EXCEPT !.branch = b, !.remote = r])

GetPullRequests ==
  {AbsentArgs, PullArgs(NoValue, NumValue), PullArgs(NumValue, NumValue)}
  \cup {PullArgs(b, r) : b \in {NoValue, StrValue(<<"dev">>)},
                         r \in {NoValue, StrValue(<<"upstream">>)}}

PullCommand(branch, remote) ==
  <<"git pull ">> \o remote \o (IF Truthy(branch) THEN <<" ">> \o branch.s ELSE << >>)

PullText(branch, remote, stdout) ==
  <<"Successfully pulled changes from remote '">> \o remote \o <<"'">>
    \o (IF Truthy(branch) THEN <<" branch '">> \o branch.s \o <<"'">> ELSE << >>)
    \o <<". Output:\n">> \o OrNoOutput(stdout)

PullFailed(error) == <<"Failed to pull from Git repository: ">> \o ErrorDetail(error)

\* gitPull's catch without the throw: the failure is returned as the output
PullSwallowed(error) == Success(PullFailed(error))

\* gitPull's catch: log, then throw the Error, which the handler rethrows
PullThrown(error) == Failure(PullFailed(error))

\* case "get_pull" up to the await of gitPull
GetPull(i, args) ==
  LET parsed == ZodParse(GetPullInputSchema, OrEmpty(args))
  IN  IF ~parsed.ok
      THEN ValidationFailure("get_pull", args, parsed.issues)
      ELSE Suspend(i, Awaiting("get_pull", args,
                               <<Step("pull", PullCommand(parsed.data.branch, parsed.data.remote.s))>>,
                               Undefined, NotDetected))

\* text on stderr taken for an error unless it is one of the known
\* informational messages
PullRejectsOnStderr(o) ==
  \/ ~o.ok
  \/ o.stderr # << >> /\ ~Includes(o.stderr, "Updating") /\ ~Includes(o.stderr, "Fast-forward")

\* whether the await of the pull rejects: only a non-zero exit does; text on
\* stderr is logged, at most
PullRejects(o) == ~o.ok

\* gitPull resumed by the exit of its subprocess
GetPullExit(i, o) ==
  LET h == inflight[i]
      data == ZodParse(GetPullInputSchema, OrEmpty(h.args)).data
  IN  IF PullRejects(o)
      THEN Finish(i, o, PullThrown(ExecError(Running(h).cmd, o)))
      ELSE Finish(i, o, Success(PullText(data.branch, data.remote.s, o.stdout)))

---------------------------------------------------------------------------
(* get_push *)

PushArgs(m, b, r) == ArgsWith([NoFields EXCEPT !.commitMessage = m, !.branch = b, !.remote = r])

GetPushRequests ==
  {AbsentArgs, PushArgs(StrValue(<<"update">>), StrValue(<<"dev">>), StrValue(<<"upstream">>))}
  \cup {PushArgs(m, b, NoValue) :
          m \in {NoValue, StrValue(<<"update">>),
                 StrValue(<<"docs: ", NothingToCommit, " message">>), NumValue},
          b \in {NoValue, StrValue(<<"dev">>), NumValue}}

\* commitMessage.replace(/"/g, '\"'): the replacement '\"' is the string '"'
EscapeQuotes(s) == [k \in 1..Len(s) |-> IF s[k] = "\"" THEN "\"" ELSE s[k]]

AddCommand == <<"git add .">>
CommitCommand(commitMessage) == <<"git commit -m \"">> \o EscapeQuotes(commitMessage) \o <<"\"">>
RevParseCommand == <<"git rev-parse --abbrev-ref HEAD">>

\* a push command that always names the symbolic HEAD
PushCommandHead(remote, currentBranch) == <<"git push ">> \o remote \o <<" HEAD">>

\* `git push ${remote}${currentBranch ? ` ${currentBranch}` : ' HEAD'}`
PushCommand(remote, currentBranch) ==
  <<"git push ">> \o remote
    \o (IF Truthy(currentBranch) THEN <<" ">> \o currentBranch.s ELSE <<" HEAD">>)

PushText(commitMessage, remote, currentBranch, stdout) ==
  <<"Successfully pushed changes to remote '">> \o remote \o <<"'">>
    \o (IF Truthy(currentBranch) THEN <<" branch '">> \o currentBranch.s \o <<"'">> ELSE << >>)
    \o <<" with message: \"">> \o commitMessage \o <<"\". Output:\n">> \o OrNoOutput(stdout)

PushFailed(error) == <<"Failed to push to Git repository: ">> \o ErrorDetail(error)

\* the test of gitPush's catch for a commit that had nothing to commit
IsNothingToCommit(error) ==
  /\ error.message # << >>
  /\ \/ Includes(error.message, NothingToCommit)
     \/ (error.stderr # << >> /\ Includes(error.stderr, NothingToCommit))

\* gitPush's catch: the benign no-op is returned, anything else is thrown
PushCaught(error) ==
  IF IsNothingToCommit(error)
  THEN Success(<<"No changes to commit.">>)
  ELSE Failure(PushFailed(error))

\* case "get_push" up to the first await of gitPush
GetPush(i, args) ==
  LET parsed == ZodParse(GetPushInputSchema, args)
  IN  IF ~parsed.ok
      THEN ValidationFailure("get_push", args, parsed.issues)
      ELSE Suspend(i, Awaiting("get_push", args, <<Step("add", AddCommand)>>,
                               parsed.data.branch, NotDetected))

\* a wider inner try: a failed commit is caught there as well
InnerTryWithCommit(pc) == pc \in {"commit", "rev-parse"}

\* the steps inside gitPush's inner try, whose failure is logged and passed over
InnerTry(pc) == pc = "rev-parse"

\* gitPush resumed by the exit of its subprocess
GetPushExit(i, o) ==
  LET h == inflight[i]
      pc == Running(h).pc
      data == ZodParse(GetPushInputSchema, h.args).data
      then(step, cmd) == Suspend(i, [h EXCEPT !.steps = Append(Exited(@, o), Step(step, cmd))])
      push(currentBranch, detected) ==
        Suspend(i, [h EXCEPT !.steps = Append(Exited(@, o),
                                              Step("push", PushCommand(data.remote.s, currentBranch))),
                             !.currentBranch = currentBranch,
                             !.detected = detected])
  IN  IF InnerTry(pc)
      THEN \* the inner try: a failed detection is logged and leaves currentBranch undefined
           IF o.ok THEN push(Defined(Trim(o.stdout)), Detected(o))
           ELSE push(h.currentBranch, Detected(o))
      ELSE IF ~o.ok
      THEN Finish(i, o, PushCaught(ExecError(Running(h).cmd, o)))
      ELSE IF pc = "add"
      THEN then("commit", CommitCommand(data.commitMessage.s))
      ELSE IF pc = "commit"
      THEN IF ~Truthy(h.currentBranch)
           THEN then("rev-parse", RevParseCommand)
           ELSE push(h.currentBranch, NotDetected)
      ELSE Finish(i, o, Success(PushText(data.commitMessage.s, data.remote.s, h.currentBranch, o.stdout)))

---------------------------------------------------------------------------
(* The server *)

\* after main(): the default configuration, and the start-up entries in the
\* log file of the directory the server was started in
Init ==
  /\ WORKING_DIR = ProcessCwd
  /\ LOG_FILE = PathJoin(ProcessCwd, LOG_FILE_NAME)
  /\ fs = LogToFile([dirs |-> Prefixes(ProcessCwd), files |-> {}],
                    PathJoin(ProcessCwd, LOG_FILE_NAME))
  /\ inflight = [i \in Slots |-> Idle]
  /\ ev = NoEvent
  /\ lastLoad = NoLoad

\* no result is waiting to be sent: the event loop takes the next message or
\* the next subprocess exit
Ready == ev = NoEvent

Free(i) == inflight[i] = Idle /\ \A j \in Slots : j < i => inflight[j] # Idle

\* a request arrives: its handler runs up to its first await or to its result,
\* whatever other handlers are suspended
ReqLoadConfig == Ready /\ \E args \in LoadConfigRequests : LoadConfig(args)
ReqGetConfig == Ready /\ \E args \in GetConfigRequests : GetConfig(args)
ReqUnknown == Ready /\ \E name \in UnknownNames : UnknownTool(name)
ReqGetInit == Ready /\ \E i \in Slots, args \in GetInitRequests : Free(i) /\ GetInit(i, args)
ReqGetPull == Ready /\ \E i \in Slots, args \in GetPullRequests : Free(i) /\ GetPull(i, args)
ReqGetPush == Ready /\ \E i \in Slots, args \in GetPushRequests : Free(i) /\ GetPush(i, args)

\* a subprocess exits: the handler that awaits it resumes
ExitGetInit ==
  /\ Ready
  /\ \E i \in Slots : /\ inflight[i].tool = "get_init"
                      /\ Running(inflight[i]).exit = "running"
                      /\ \E o \in Outcomes(Running(inflight[i]).pc) : GetInitExit(i, o)
ExitGetPull ==
  /\ Ready
  /\ \E i \in Slots : /\ inflight[i].tool = "get_pull"
                      /\ Running(inflight[i]).exit = "running"
                      /\ \E o \in Outcomes(Running(inflight[i]).pc) : GetPullExit(i, o)
ExitGetPush ==
  /\ Ready
  /\ \E i \in Slots : /\ inflight[i].tool = "get_push"
                      /\ Running(inflight[i]).exit = "running"
                      /\ \E o \in Outcomes(Running(inflight[i]).pc) : GetPushExit(i, o)

\* the settled handler's result goes out as the response; what it says was
\* fixed when the handler returned or threw
Respond ==
  /\ ~Ready
  /\ ev' = NoEvent
  /\ UNCHANGED <<WORKING_DIR, LOG_FILE, fs, inflight, lastLoad>>

Next ==
  \/ ReqLoadConfig
  \/ ReqGetConfig
  \/ ReqUnknown
  \/ ReqGetInit
  \/ ReqGetPull
  \/ ReqGetPush
  \/ ExitGetInit
  \/ ExitGetPull
  \/ ExitGetPush
  \/ Respond

Spec == Init /\ [][Next]_vars

\* the subprocess that the handler in slot i awaits exits, and the handler
\* resumes
HandlerExit(i) ==
  /\ Ready
  /\ inflight[i] # Idle
  /\ Running(inflight[i]).exit = "running"
  /\ \E o \in Outcomes(Running(inflight[i]).pc) :
       CASE inflight[i].tool = "get_init" -> GetInitExit(i, o)
         [] inflight[i].tool = "get_pull" -> GetPullExit(i, o)
         [] OTHER -> GetPushExit(i, o)

\* the server when every subprocess exits: the event loop delivers the exit of
\* each subprocess to the handler that awaits it, however many requests
\* arrive and whatever other subprocesses exit (an exit is held back only
\* while a result is being sent, again and again at most), and sends every
\* result
FairSpec ==
  /\ Spec
  /\ WF_vars(Respond)
  /\ \A i \in Slots : SF_vars(HandlerExit(i))

---------------------------------------------------------------------------
(* Properties *)

InFlight(i) == inflight[i] # Idle

\* the absolute path a working_dir argument names, from the directory the
\* server was started in
Resolved(p) == Normalize(IF p.abs THEN p.segs ELSE ProcessCwd \o p.segs)

\* the log path under a directory
LogUnder(dir) == Append(dir, LOG_FILE_NAME)

\* the result waiting to be sent is that of a request of this name
Answers(name) == ev.kind # "None" /\ ev.name = name

\* C1: while a get_init, get_pull or get_push request is between its first
\* and its last subprocess step, no other handler changes what it works on:
\* each further step of the request is started in the working directory of
\* the step before it.
C1_StepsShareWorkingDir ==
  [][\A i \in Slots :
       (InFlight(i) /\ inflight'[i] # Idle) => inflight'[i].cwd = inflight[i].cwd]_vars

\* C2: in every state, from the start and after any requests, successful or
\* failed, logFilePath is workingDirectory joined with github-mcp-server.log.
C2_LogFileUnderWorkingDir == LOG_FILE = LogUnder(WORKING_DIR)

\* a load_config whose directory creation failed has just changed the
\* configuration
C2_Witness ==
  /\ Answers("load_config") /\ ev.kind = "Failure"
  /\ lastLoad.valid /\ ~lastLoad.ok
  /\ WORKING_DIR # ProcessCwd

\* C3: a load_config whose directory creation fails yields a Failure that
\* carries the OS error text and leaves workingDirectory and logFilePath as
\* they were before the request.
C3_FailedLoadKeepsConfig ==
  [][(/\ ev'.kind = "Failure" /\ ev'.name = "load_config" /\ ev.kind = "None"
      /\ ZodParse(LoadConfigInputSchema, ev'.args).ok)
     => (/\ Includes(ev'.text, "ENOTDIR: not a directory, mkdir '")
         /\ WORKING_DIR' = WORKING_DIR
         /\ LOG_FILE' = LOG_FILE)]_vars

\* C4: once a load_config has changed the configuration, a directory exists
\* at the configured workingDirectory.
C4_WorkingDirIsDirectory == lastLoad.valid => WORKING_DIR \in fs.dirs

\* C5: get_config after a successful load_config, with any get_init,
\* get_pull, get_push or get_config requests in between, reports the path
\* working_dir resolves to and the log path under it, and a directory exists
\* at that path.
C5_LoadThenGetConfig ==
  (Answers("get_config") /\ ev.kind = "Success" /\ lastLoad.valid /\ lastLoad.ok)
  => LET dir == Resolved(lastLoad.working_dir)
     IN  /\ ev.text = <<"Current Configuration:\n- Working Directory: ">> \o PathStr(dir)
                        \o <<"\n- Log File: ">> \o PathStr(LogUnder(dir))
         /\ dir \in fs.dirs

\* C6: get_config after a successful load_config with a relative working_dir
\* reports the path resolved against the directory the server was started in,
\* whatever load_config calls came before.
C6_RelativeAgainstOriginalDir ==
  (Answers("get_config") /\ ev.kind = "Success"
     /\ lastLoad.valid /\ lastLoad.ok /\ ~lastLoad.working_dir.abs)
  => LET dir == Normalize(ProcessCwd \o lastLoad.working_dir.segs)
     IN  /\ WORKING_DIR = dir
         /\ ev.text = <<"Current Configuration:\n- Working Directory: ">> \o PathStr(dir)
                        \o <<"\n- Log File: ">> \o PathStr(LogUnder(dir))

\* get_config answers after load_config("../github-mcp-server.log"), which
\* followed a load_config that had moved the working directory two levels
\* below the root
C6_Witness ==
  /\ Answers("get_config") /\ ev.kind = "Success"
  /\ lastLoad.ok /\ lastLoad.working_dir = [abs |-> FALSE, segs |-> <<"..", LOG_FILE_NAME>>]
  /\ <<LOG_FILE_NAME, LOG_FILE_NAME>> \in fs.dirs

\* the request's commit step found nothing to commit: git exited non-zero
\* and said so
CleanTreeCommit ==
  /\ Answers("get_push")
  /\ ev.steps # << >> /\ ev.steps[Len(ev.steps)].pc = "commit"
  /\ ~ev.exit.ok
  /\ Includes(ev.exit.stdout \o ev.exit.stderr, NothingToCommit)

\* C7: get_push with a valid commitMessage in a repository with nothing to
\* commit yields the Success "No changes to commit.", no Failure, and starts
\* no push subprocess.
C7_NothingToCommitIsSuccess ==
  CleanTreeCommit
  => /\ ev.kind = "Success"
     /\ ev.text = <<"No changes to commit.">>
     /\ \A k \in 1..Len(ev.steps) : ev.steps[k].pc # "push"

\* a get_push without branch has reached its push step
PushingDetected(i) ==
  /\ inflight[i].tool = "get_push"
  /\ Running(inflight[i]).pc = "push"
  /\ inflight[i].args.f.branch = NoValue

\* the remote a get_push pushes to
RemoteOf(args) == IF args.f.remote.type = "string" THEN args.f.remote.val ELSE <<"origin">>

\* what the detection query printed, without the end of line
Printed(o) ==
  IF o.stdout # << >> /\ o.stdout[Len(o.stdout)] = "\n"
  THEN SubSeq(o.stdout, 1, Len(o.stdout) - 1) ELSE o.stdout

\* C8 as stated: with branch omitted, a successful detection makes the push
\* step name the detected branch and not the token HEAD; a failed detection
\* does not fail the request, and the push step names the symbolic HEAD.
C8_PushNamesBranchNotHead ==
  \A i \in Slots : PushingDetected(i) =>
    LET h == inflight[i]
        cmd == Running(h).cmd
    IN  IF h.detected.exit.ok
        THEN /\ cmd = <<"git push ">> \o RemoteOf(h.args) \o <<" ">> \o Printed(h.detected.exit)
             /\ cmd[Len(cmd)] \notin {"HEAD", " HEAD"}
        ELSE cmd = <<"git push ">> \o RemoteOf(h.args) \o <<" HEAD">>

\* C8 (amended): with branch omitted, a successful detection makes the push
\* step name what the query printed, trimmed: the branch's name when HEAD is
\* on a branch, the token HEAD when HEAD is detached, and the symbolic HEAD
\* when the query printed nothing; a failed detection does not fail the
\* request, and the push step names the symbolic HEAD.
C8_PushNamesWhatWasDetected ==
  \A i \in Slots : PushingDetected(i) =>
    LET h == inflight[i]
        cmd == Running(h).cmd
        printed == Printed(h.detected.exit)
    IN  /\ h.detected.ran
        /\ IF h.detected.exit.ok /\ printed # << >>
           THEN /\ cmd = <<"git push ">> \o RemoteOf(h.args) \o <<" ">> \o printed
                /\ (cmd[Len(cmd)] = "HEAD" <=> printed = <<"HEAD">>)
           ELSE cmd = <<"git push ">> \o RemoteOf(h.args) \o <<" HEAD">>

\* a get_push without branch pushes the branch the query detected
C8_Witness ==
  \E i \in Slots :
    /\ PushingDetected(i)
    /\ inflight[i].detected.exit.ok
    /\ Printed(inflight[i].detected.exit) = <<"main">>

\* C9: a get_pull whose pull subprocess exits non-zero yields a Failure whose
\* message includes the stderr captured from that subprocess.
C9_PullFailureCarriesStderr ==
  (Answers("get_pull") /\ ev.steps # << >> /\ ~ev.exit.ok)
  => /\ ev.kind = "Failure"
     /\ IncludesStr(ev.text, ev.exit.stderr)

\* a pull subprocess has exited non-zero with text on stderr
C9_Witness ==
  /\ Answers("get_pull") /\ ev.steps # << >>
  /\ ~ev.exit.ok /\ ev.exit.stderr # << >>

\* the number of tokens of s equal to tok
RECURSIVE Count(_, _)
Count(s, tok) ==
  IF s = << >> THEN 0 ELSE (IF Head(s) = tok THEN 1 ELSE 0) + Count(Tail(s), tok)

\* C10: get_init without remoteUrl, whether arguments lacks the field or is
\* absent, yields a Failure that lists exactly remoteUrl as missing, and the
\* request starts no subprocess.
C10_MissingRemoteUrlIsNamed ==
  (Answers("get_init") /\ ev.args.f.remoteUrl = NoValue)
  => /\ ev.kind = "Failure"
     /\ ev.steps = << >>
     /\ IncludesStr(ev.text, <<"remoteUrl", ": ", "Required">>)
     /\ Count(ev.text, "Required") = 1

\* the five operations and the fields each declares
Tools == {"load_config", "get_config", "get_init", "get_pull", "get_push"}

RequiredFields(name) ==
  CASE name = "load_config" -> {"working_dir"}
    [] name = "get_init" -> {"remoteUrl"}
    [] name = "get_push" -> {"commitMessage"}
    [] OTHER -> {}

OptionalFields(name) ==
  CASE name = "get_init" -> {"defaultBranch"}
    [] name \in {"get_pull", "get_push"} -> {"branch", "remote"}
    [] OTHER -> {}

\* the fields of an arguments mapping that violate the operation's shape: a
\* required field that is missing, and a field that is not a string
ViolatedFields(name, args) ==
  {n \in RequiredFields(name) : args.f[n].type # "string"}
    \cup {n \in OptionalFields(name) : args.f[n].type \notin {"string", "undefined"}}

\* the reason zod gives for a violated field
ViolationOf(v) ==
  IF v.type = "undefined" THEN <<"Required">> ELSE <<"Expected string, received ", v.type>>

\* C11: for every operation and every arguments mapping that violates the
\* operation's shape, the request yields a Failure whose message lists every
\* violated field with its reason, not only the first one.
C11_EveryViolationListed ==
  (ev.kind # "None" /\ ev.name \in Tools /\ ev.args.present
     /\ ViolatedFields(ev.name, ev.args) # {})
  => /\ ev.kind = "Failure"
     /\ \A n \in ViolatedFields(ev.name, ev.args) :
          IncludesStr(ev.text, <<n, ": ">> \o ViolationOf(ev.args.f[n]))

\* a request with two violated fields has been answered
C11_Witness ==
  /\ ev.kind = "Failure" /\ ev.name \in Tools /\ ev.args.present
  /\ Cardinality(ViolatedFields(ev.name, ev.args)) >= 2

\* the result waiting to be sent is that of a request that failed validation
FailedValidation(e) ==
  /\ e.kind = "Failure"
  /\ e.text # << >> /\ Head(e.text) = "Input validation failed for tool '"

\* C12 as stated: a request that fails validation never touches the file
\* system or a subprocess: between its arrival and its Failure result no
\* directory is created, no file is written or appended, and no subprocess
\* is started.
C12_ValidationTouchesNothing ==
  [][(ev.kind = "None" /\ FailedValidation(ev'))
     => (/\ fs' = fs
         /\ ev'.log # "written"
         /\ ev'.steps = << >> /\ inflight' = inflight)]_vars

\* C12 (amended): a request that fails validation starts no subprocess and
\* touches the file system only through the log: between its arrival and its
\* Failure result no directory is created other than the log file's
\* directory, and no file is written other than the log file, to which the
\* error is appended.
C12_ValidationOnlyLogs ==
  [][(ev.kind = "None" /\ FailedValidation(ev'))
     => (/\ fs'.files \ fs.files \subseteq {LOG_FILE}
         /\ fs'.dirs \ fs.dirs \subseteq Prefixes(PathDirname(LOG_FILE))
         /\ ev'.steps = << >> /\ inflight' = inflight)]_vars

\* a request has failed validation and its error has been appended to the log
C12_Witness == FailedValidation(ev) /\ ev.log = "written"

\* C13: any request whose name is not one of load_config, get_config,
\* get_init, get_pull, get_push yields a Failure whose message cites the
\* unknown tool and echoes the offending name, starts no subprocess and
\* leaves the config unchanged.
C13_UnknownToolFails ==
  [][(ev.kind = "None" /\ ev'.kind # "None" /\ ev'.name \notin Tools)
     => (/\ ev'.kind = "Failure"
         /\ ev'.text = <<"Unknown tool: ", ev'.name>>
         /\ ev'.steps = << >> /\ inflight' = inflight
         /\ WORKING_DIR' = WORKING_DIR /\ LOG_FILE' = LOG_FILE)]_vars

\* a request naming get_config in another spelling has been answered while
\* another request's subprocess runs
C13_Witness ==
  /\ ev.kind # "None" /\ ev.name = "Get_Config"
  /\ \E i \in Slots : InFlight(i)

\* the handler of the answered request returned a value: load_config found or
\* made its directory, get_config always, a git operation when its last
\* subprocess exited cleanly or gitPush's catch took the failure for a commit
\* with nothing to commit
HandlerReturned(e) ==
  CASE e.name = "load_config" -> ExistsSync(fs, WORKING_DIR)
    [] e.name = "get_config" -> TRUE
    [] e.name = "get_push" ->
         /\ e.steps # << >>
         /\ \/ e.exit.ok
            \/ Includes(e.steps[Len(e.steps)].cmd \o e.exit.stderr, NothingToCommit)
    [] OTHER -> e.steps # << >> /\ e.exit.ok

\* C14: every request yields one result that is either a Success or a
\* Failure: a Success exactly when validation passed and the handler returned
\* a value, a Failure exactly when the name is unknown, validation failed, or
\* the handler threw.
C14_SuccessIffReturned ==
  ev.kind # "None"
  => /\ ev.kind \in {"Success", "Failure"}
     /\ ev.kind = "Success" <=>
          (/\ ev.name \in Tools
           /\ ViolatedFields(ev.name, ev.args) = {}
           /\ HandlerReturned(ev))
     /\ ev.kind = "Failure" <=>
          (\/ ev.name \notin Tools
           \/ ViolatedFields(ev.name, ev.args) # {}
           \/ ~HandlerReturned(ev))

\* a get_push whose commit subprocess failed has returned a value
C14_Witness == Answers("get_push") /\ ev.kind = "Success" /\ ~ev.exit.ok

\* C15: load_config is idempotent: called again with the path of the
\* load_config before it, which succeeded (also when that call created
\* several missing parent segments), it succeeds again and leaves
\* workingDirectory, logFilePath and the directory tree as they were.
C15_LoadConfigIdempotent ==
  [][(ev.kind = "None" /\ ev'.kind # "None" /\ ev'.name = "load_config" /\ ev'.again)
     => (/\ ev'.kind = "Success"
         /\ WORKING_DIR' = WORKING_DIR /\ LOG_FILE' = LOG_FILE
         /\ fs' = fs)]_vars

\* load_config has been repeated with a path two segments below the root,
\* both of which the first call created
C15_Witness ==
  /\ Answers("load_config") /\ ev.again
  /\ lastLoad.working_dir = [abs |-> TRUE, segs |-> <<LOG_FILE_NAME, LOG_FILE_NAME>>]
  /\ WORKING_DIR \in fs.dirs

\* the steps are the first steps of order, each started after the one before
\* it exited cleanly
StartedInOrder(steps, order) ==
  /\ Len(steps) <= Len(order)
  /\ \A k \in 1..Len(steps) :
       /\ steps[k].pc = order[k]
       /\ k < Len(steps) => steps[k].exit = "ok"

\* the steps of get_init as the request's arguments ask for them
InitSteps(args) ==
  <<"init", "remote">>
    \o (IF args.f.defaultBranch.type = "string" THEN <<"branch">> ELSE << >>)

\* C16: get_init runs its steps in the order init, add remote origin, then
\* branch rename (the rename only when defaultBranch is given); when a step
\* exits non-zero no later step of that request is started and the request
\* yields a Failure containing the failing step's stderr.
C16_InitStepsInOrder ==
  /\ \A i \in Slots : inflight[i].tool = "get_init" =>
       /\ StartedInOrder(inflight[i].steps, InitSteps(inflight[i].args))
       /\ Running(inflight[i]).exit = "running"
  /\ (Answers("get_init") /\ ev.steps # << >>) =>
       /\ StartedInOrder(ev.steps, InitSteps(ev.args))
       /\ ev.steps[1].cmd = <<"git init">>
       /\ Len(ev.steps) >= 2 => Includes(ev.steps[2].cmd, "git remote add origin \"")
       /\ Len(ev.steps) >= 3 => Includes(ev.steps[3].cmd, "git branch -M \"")
       /\ IF ev.exit.ok
          THEN /\ ev.kind = "Success"
               /\ Len(ev.steps) >= 2
               /\ ev.args.f.defaultBranch.val # << >> => Len(ev.steps) = 3
          ELSE /\ ev.kind = "Failure"
               /\ ev.steps[Len(ev.steps)].exit = "failed"
               /\ IncludesStr(ev.text, ev.exit.stderr)

\* the add-remote step of a get_init with defaultBranch has exited non-zero
C16_Witness ==
  /\ Answers("get_init") /\ Len(ev.steps) = 2
  /\ ~ev.exit.ok /\ ev.exit.stderr # << >>
  /\ ev.args.f.defaultBranch = StrValue(<<"main">>)

\* the last subprocess of the answered get_push was its commit, which exited
\* non-zero and reported that there was nothing to commit
CommitFoundNothing ==
  /\ ev.steps[Len(ev.steps)].pc = "commit"
  /\ ~ev.exit.ok
  /\ Includes(ev.exit.stdout \o ev.exit.stderr, NothingToCommit)

\* C17: get_push returns the success text "No changes to commit." only when
\* the failing step was the commit step and it failed because there was
\* nothing to commit; a non-zero exit of the add step or of the push step,
\* and a commit failure for any other reason, always yields a Failure.
C17_NoChangesOnlyForCleanTree ==
  (Answers("get_push") /\ ev.steps # << >>)
  => /\ (ev.kind = "Success" /\ ev.text = <<"No changes to commit.">>) => CommitFoundNothing
     /\ (~ev.exit.ok /\ ~CommitFoundNothing) => ev.kind = "Failure"

\* the steps of get_push as the request's arguments ask for them: the branch
\* is detected when the request names none
PushSteps(args) ==
  <<"add", "commit">>
    \o (IF args.f.branch.type = "string" /\ args.f.branch.val # << >>
        THEN << >> ELSE <<"rev-parse">>)
    \o <<"push">>

\* the steps are the first steps of get_push's order, and each step after the
\* add and the commit was started after these had exited cleanly
PushStartedInOrder(steps, args) ==
  /\ Len(steps) <= Len(PushSteps(args))
  /\ \A k \in 1..Len(steps) :
       /\ steps[k].pc = PushSteps(args)[k]
       /\ (k < Len(steps) /\ steps[k].pc \in {"add", "commit"}) => steps[k].exit = "ok"
       /\ k < Len(steps) => steps[k].exit # "running"

\* C18: within one get_push request the steps run in the order add, commit,
\* optional branch detection, push, and the push subprocess is started only
\* if the add step and the commit step of the same request both exited
\* cleanly; a failure of add or commit aborts all remaining steps.
C18_PushStepsInOrder ==
  /\ \A i \in Slots : inflight[i].tool = "get_push" =>
       /\ PushStartedInOrder(inflight[i].steps, inflight[i].args)
       /\ Running(inflight[i]).exit = "running"
  /\ (Answers("get_push") /\ ev.steps # << >>) =>
       /\ PushStartedInOrder(ev.steps, ev.args)
       /\ ev.steps[Len(ev.steps)].exit = (IF ev.exit.ok THEN "ok" ELSE "failed")
       /\ ev.exit.ok => Len(ev.steps) = Len(PushSteps(ev.args))

\* a get_push without branch has started its push after a branch detection
\* that failed
C18_Witness ==
  \E i \in Slots :
    /\ inflight[i].tool = "get_push"
    /\ Len(inflight[i].steps) = 4 /\ Running(inflight[i]).pc = "push"
    /\ inflight[i].steps[3].exit = "failed"

\* C19: the config is mutated only by load_config: workingDirectory and
\* logFilePath change only in the step that answers a load_config request
\* with valid arguments; every get_config, get_init, get_pull and get_push
\* request, succeeding or failing, every step of theirs, and every unknown
\* or invalid request leaves both unchanged.
C19_OnlyLoadConfigMutates ==
  [][(WORKING_DIR' # WORKING_DIR \/ LOG_FILE' # LOG_FILE)
     => (/\ ev.kind = "None" /\ ev'.name = "load_config"
         /\ ViolatedFields("load_config", ev'.args) = {})]_vars

\* a get_push has failed under a configuration that load_config had changed
C19_Witness ==
  /\ Answers("get_push") /\ ev.kind = "Failure" /\ ev.steps # << >>
  /\ WORKING_DIR # ProcessCwd

\* how the message of each operation's result begins
ResultHeads(name, kind) ==
  CASE name = "load_config" /\ kind = "Success" ->
         {"Configuration updated: Working Directory set to '"}
    [] name = "load_config" /\ kind = "Failure" -> {"Failed to create working directory "}
    [] name = "get_config" /\ kind = "Success" -> {"Current Configuration:\n- Working Directory: "}
    [] name = "get_init" /\ kind = "Success" -> {"Git repository initialized in "}
    [] name = "get_init" /\ kind = "Failure" -> {"Failed to initialize Git repository: "}
    [] name = "get_pull" /\ kind = "Success" -> {"Successfully pulled changes from remote '"}
    [] name = "get_pull" /\ kind = "Failure" -> {"Failed to pull from Git repository: "}
    [] name = "get_push" /\ kind = "Success" ->
         {"Successfully pushed changes to remote '", "No changes to commit."}
    [] name = "get_push" /\ kind = "Failure" -> {"Failed to push to Git repository: "}
    [] OTHER -> {}

\* the answered request's result is the one its name, its arguments and its
\* subprocesses' exits call for
ResultAsCalledFor(e) ==
  IF e.name \notin Tools
  THEN e.kind = "Failure" /\ e.text = <<"Unknown tool: ", e.name>> /\ e.steps = << >>
  ELSE IF ViolatedFields(e.name, e.args) # {}
  THEN FailedValidation(e) /\ e.steps = << >>
  ELSE /\ e.kind = (IF HandlerReturned(e) THEN "Success" ELSE "Failure")
       /\ e.text # << >> /\ Head(e.text) \in ResultHeads(e.name, e.kind)
       /\ e.name = "load_config" =>
            /\ e.steps = << >>
            /\ WORKING_DIR = Resolved(e.args.f.working_dir.val)
            /\ LOG_FILE = LogUnder(WORKING_DIR)
       /\ e.name = "get_init" =>
            /\ StartedInOrder(e.steps, InitSteps(e.args))
            /\ e.exit.ok => Len(e.steps) >= 2
       /\ e.name = "get_pull" => Len(e.steps) = 1
       /\ e.name = "get_push" =>
            /\ PushStartedInOrder(e.steps, e.args)
            /\ e.exit.ok => Len(e.steps) = Len(PushSteps(e.args))

\* C20: a failure of logEvent never propagates: every request, whether its
\* log writes succeed or fail (the log directory cannot be created or the
\* append fails), yields the result, Success or Failure with its text, has
\* started the subprocess steps and leaves the config that its name, its
\* arguments and its subprocesses' exits call for.
C20_LogFailureNeverPropagates ==
  (ev.kind # "None" /\ ev.log \in {"written", "failed"}) => ResultAsCalledFor(ev)

\* a get_pull has succeeded in a working directory whose log file cannot be
\* written, a directory being in its place
C20_Witness ==
  /\ Answers("get_pull") /\ ev.kind = "Success" /\ ev.log = "failed"
  /\ WORKING_DIR \in fs.dirs /\ LOG_FILE \in fs.dirs

\* C21: get_pull yields a Success whenever its pull subprocess exits cleanly,
\* whatever the subprocess wrote to stderr, with or without "Updating" or
\* "Fast-forward" in it; the Success carries what the subprocess wrote to
\* stdout.
C21_CleanPullSucceeds ==
  (Answers("get_pull") /\ ev.steps # << >> /\ ev.exit.ok)
  => /\ ev.kind = "Success"
     /\ Head(ev.text) = "Successfully pulled changes from remote '"
     /\ IncludesStr(ev.text, IF ev.exit.stdout # << >> THEN ev.exit.stdout ELSE <<"No output">>)

\* a pull has exited cleanly with text on stderr that holds neither
\* "Updating" nor "Fast-forward"
C21_Witness ==
  /\ Answers("get_pull") /\ ev.exit.ok
  /\ ev.exit.stderr # << >>
  /\ ~Includes(ev.exit.stderr, "Updating") /\ ~Includes(ev.exit.stderr, "Fast-forward")

GitTools == {"get_init", "get_pull", "get_push"}

\* C22: if every subprocess a handler starts eventually exits, every accepted
\* request eventually yields its result: a handler suspended on a subprocess
\* needs nothing but the exits of its subprocesses to reach its Success or
\* Failure.
C22_EveryRequestCompletes ==
  \A i \in Slots :
    InFlight(i) ~> (~InFlight(i) /\ ev.name \in GitTools /\ ev.kind \in {"Success", "Failure"})

\* a get_push without branch has run all four of its subprocesses and
\* succeeded
C22_Witness ==
  /\ Answers("get_push") /\ ev.kind = "Success"
  /\ Len(ev.steps) = 4 /\ ev.exit.ok

====
